---- MODULE Spec2Model ----
(***************************************************************************)
(* The multi-key, multi-model request dispatcher of the study-aid          *)
(* application (the gemini service module), in its five revisions:         *)
(*   "gs"  src/services/geminiService.ts  lines 1-244  (recursive retry)   *)
(*   "db"  src/services/db.ts             lines 679-904 (recursive retry)  *)
(*   "p3"  src/unnamed/part_003           lines 1-277  (loop, model list)  *)
(*   "p4a" src/unnamed/part_004           lines 1-266  (loop, fallback keys)*)
(*   "p4b" src/unnamed/part_004           lines 267-550 (loop)             *)
(* A JavaScript string is a sequence of one-character strings.             *)
(***************************************************************************)
EXTENDS Integers, Sequences, FiniteSets, TLC

VARIABLES
    rev,         \* which revision of the service module is loaded
    env,         \* process.env: the configuration strings
    cfgKeys,     \* observation: the credentials the configuration was written with
    API_KEYS,    \* module constant: the parsed credential list
    clientPool,  \* module constant: one bound client per credential, or the sentinel
    models,      \* module constant: the model list generateWithRetry iterates
    pc,          \* position of the request: "idle", "inflight", "sleeping", "done"
    entry,       \* the operation the caller invoked
    retries,     \* generateWithRetry parameter (the current frame's, in gs/db)
    baseDelay,   \* generateWithRetry parameter, a rational <<num, den>>
    attempt,     \* outer loop counter of the loop revisions
    mi,          \* position in MODEL_FALLBACKS of the model of the call in flight
    client,      \* index in clientPool (0-based) of the picked client, -1 before a pick
    lastError,   \* local lastError of the loop revisions
    dresult,     \* how generateWithRetry ended: a value or a thrown error
    ret,         \* what the generation operation returned to its caller
    maxAttempts, \* observation: retries as passed to the outermost call
    nCalls,      \* observation: operation(client, model) calls made
    nStarted,    \* observation: operation(client, model) calls started
    nPicks,      \* observation: credential picks made
    delays,      \* observation: the setTimeout delays awaited, in order
    lastOut,     \* observation: outcome of the last completed operation call
    allRL,       \* observation: every completed call failed rate-limited
    uniform,     \* observation: the id of the outcome every completed call had,
                 \* "none" before the first call, "mixed" once two calls differed
    fallbackRun, \* observation: every completed call failed model-unavailable,
                 \* except calls on the last model, which succeeded
    other,       \* the locals of a second generateWithRetry call, suspended at
                 \* an await while the first one runs
    dbRev,       \* which revision of the db object of db.ts is loaded
    isMockMode,  \* db.ts:9, the local storage mode of the first revision
    storedUsername, \* localStorage item 'study_buddy_username', << >> when absent
    profiles,    \* the rows of the profiles table
    login,       \* the db.login call: its position, arguments and locals
    messages,    \* the messages column of the chat the sends address
    sends        \* the send calls: position and the messages each one read

\* the variables of the service module
service == << rev, env, cfgKeys, API_KEYS, clientPool, models, pc, entry, retries,
              baseDelay, attempt, mi, client, lastError, dresult, ret, maxAttempts,
              nCalls, nStarted, nPicks, delays, lastOut, allRL, uniform, fallbackRun,
              other >>

\* the variables of the db object
database == << dbRev, isMockMode, storedUsername, profiles, login, messages, sends >>

vars == << service, database >>

Revisions == {"gs", "db", "p3", "p4a", "p4b"}
LoopRevs == {"p3", "p4a", "p4b"}
RecursiveRevs == {"gs", "db"}

-----------------------------------------------------------------------------
(* Bounds of the model *)

\* largest number of credentials written into a dispatch configuration
MaxKeys == 2
\* largest number of entries written into a parsing configuration
MaxItems == 2
\* largest retries argument of a direct generateWithRetry call
MaxRetries == 1
\* Math.random() returns j / RandomSteps for some j in 0 .. RandomSteps - 1
RandomSteps == 8

-----------------------------------------------------------------------------
(* JavaScript string primitives *)

Min(a, b) == IF a < b THEN a ELSE b

\* the function f over 1..n written out as a tuple
AsTuple(f) == SubSeq(f, 1, Len(f))

WhiteSpace == {" ", "\t", "\n", "\r"}

UpperCase == <<"A", "B", "C", "D", "E", "F", "G", "H", "I", "J", "K", "L", "M",
               "N", "O", "P", "Q", "R", "S", "T", "U", "V", "W", "X", "Y", "Z">>
LowerCase == <<"a", "b", "c", "d", "e", "f", "g", "h", "i", "j", "k", "l", "m",
               "n", "o", "p", "q", "r", "s", "t", "u", "v", "w", "x", "y", "z">>

LowerChar(c) ==
    IF \E i \in 1..26 : UpperCase[i] = c
    THEN LowerCase[CHOOSE i \in 1..26 : UpperCase[i] = c]
    ELSE c

\* String.prototype.toLowerCase
ToLowerCase(s) == AsTuple([i \in 1..Len(s) |-> LowerChar(s[i])])

\* s has pat at position i (1-based)
MatchAt(s, pat, i) ==
    /\ i + Len(pat) - 1 <= Len(s)
    /\ \A k \in 1..Len(pat) : s[i + k - 1] = pat[k]

\* String.prototype.includes
Includes(s, pat) == \E i \in 1..(Len(s) + 1) : MatchAt(s, pat, i)

\* String.prototype.indexOf, 0-based, -1 when absent
IndexOf(s, pat) ==
    IF Includes(s, pat)
    THEN (CHOOSE i \in 1..(Len(s) + 1) :
             /\ MatchAt(s, pat, i)
             /\ \A j \in 1..(i - 1) : ~MatchAt(s, pat, j)) - 1
    ELSE -1

\* String.prototype.substring(start) and substring(0, n), start 0-based
SubstringFrom(s, start) == SubSeq(s, start + 1, Len(s))
SubstringTo(s, n) == SubSeq(s, 1, Min(n, Len(s)))

\* String.prototype.trim
Trim(s) ==
    IF \A i \in 1..Len(s) : s[i] \in WhiteSpace
    THEN << >>
    ELSE LET first == CHOOSE i \in 1..Len(s) :
                         /\ s[i] \notin WhiteSpace
                         /\ \A j \in 1..(i - 1) : s[j] \in WhiteSpace
             last == CHOOSE i \in 1..Len(s) :
                         /\ s[i] \notin WhiteSpace
                         /\ \A j \in (i + 1)..Len(s) : s[j] \in WhiteSpace
         IN SubSeq(s, first, last)

\* s.replace(/[chars]/g, '')
RemoveChars(s, chars) == SelectSeq(s, LAMBDA c : c \notin chars)

\* s.replace(/['"]/g, '')
RemoveQuotes(s) == RemoveChars(s, {"'", "\""})

\* the elements of a set of integers, in ascending order
Ascending(S) ==
    AsTuple([k \in 1..Cardinality(S) |->
                CHOOSE i \in S : Cardinality({j \in S : j < i}) = k - 1])

\* s.split(sep) on a one-character separator class, every separator separating:
\* the pieces between consecutive separator positions, empty pieces included
SplitEach(s, seps) ==
    LET cuts == Ascending({0, Len(s) + 1} \cup {i \in 1..Len(s) : s[i] \in seps})
    IN AsTuple([k \in 1..(Len(cuts) - 1) |-> SubSeq(s, cuts[k] + 1, cuts[k + 1] - 1)])

\* String.prototype.split.  With runs, the separator is /[seps]+/: a run of
\* separators separates once, so no piece but the first and the last can be empty.
Split(s, seps, runs) ==
    LET each == SplitEach(s, seps)
        inner == {k \in 1..Len(each) : k = 1 \/ k = Len(each) \/ each[k] # << >>}
        order == Ascending(inner)
    IN IF runs THEN AsTuple([k \in 1..Len(order) |-> each[order[k]]]) ELSE each

\* Array.prototype.join
RECURSIVE Join(_, _)
Join(parts, sep) ==
    IF Len(parts) = 0 THEN << >>
    ELSE IF Len(parts) = 1 THEN parts[1]
    ELSE parts[1] \o sep \o Join(Tail(parts), sep)

\* Array.from(new Set(list)): first occurrences, in order
Dedupe(list) ==
    LET firsts == Ascending({i \in 1..Len(list) : \A j \in 1..(i - 1) : list[j] # list[i]})
    IN AsTuple([k \in 1..Len(firsts) |-> list[firsts[k]]])

Range(f) == {f[i] : i \in DOMAIN f}

-----------------------------------------------------------------------------
(* Credentials and configuration *)

\* the structural prefix of a credential
KeyPrefix == <<"A", "I", "z", "a", "S", "y">>

\* a credential of 39 characters: the prefix and 33 times the character c
KeyOf(c) == KeyPrefix \o AsTuple([i \in 1..33 |-> c])

\* the five embedded fallback credentials, comma separated; the model keeps their
\* prefix, length and distinctness, not their characters
FALLBACK_KEYS ==
    Join(<< KeyOf("1"), KeyOf("2"), KeyOf("3"), KeyOf("4"), KeyOf("5") >>, << "," >>)

FallbackKeySet == {KeyOf("1"), KeyOf("2"), KeyOf("3"), KeyOf("4"), KeyOf("5")}

\* API_KEY || GEMINI_API_KEY || REACT_APP_API_KEY || ""
FirstSet(e) ==
    IF e.API_KEY # << >> THEN e.API_KEY
    ELSE IF e.GEMINI_API_KEY # << >> THEN e.GEMINI_API_KEY
    ELSE e.REACT_APP_API_KEY

\* the raw string the revision parses
RAW_KEYS(r, e) ==
    CASE r \in {"gs", "db", "p3"} -> e.API_KEY
      [] r = "p4b" -> FirstSet(e)
      [] r = "p4a" -> Join(<< e.API_KEY, e.GEMINI_API_KEY, e.REACT_APP_API_KEY,
                              FALLBACK_KEYS >>, << "," >>)

\* the pieces the revision splits the raw string into
Candidates(r, raw) ==
    CASE r \in {"gs", "db"} -> Split(raw, {","}, FALSE)
      [] r = "p3" -> Split(RemoveQuotes(raw), {",", ";", "\n", "|"}, TRUE)
      [] r \in {"p4a", "p4b"} -> Split(raw, {",", ";", "\n"} \cup WhiteSpace, TRUE)

\* clean.substring(clean.indexOf('AIzaSy')), or nothing when the prefix is absent
FromPrefix(candidate) ==
    LET clean == Trim(RemoveQuotes(candidate))
        startIndex == IndexOf(clean, KeyPrefix)
    IN IF startIndex # -1 THEN << SubstringFrom(clean, startIndex) >> ELSE << >>

\* map and filter of one candidate: the key it yields, as a list of zero or one key
ExtractKey(r, candidate) ==
    CASE r \in {"gs", "db"} ->
            IF Len(Trim(candidate)) > 0 THEN << Trim(candidate) >> ELSE << >>
      [] r = "p3" ->
            IF Len(Trim(candidate)) > 10 THEN << Trim(candidate) >> ELSE << >>
      [] r = "p4a" ->
            IF candidate = << >> THEN << >>
            ELSE SelectSeq(FromPrefix(candidate), LAMBDA key : Len(key) >= 35)
      [] r = "p4b" ->
            SelectSeq(FromPrefix(candidate), LAMBDA key : Len(key) > 30)

RECURSIVE ExtractKeys(_, _)
ExtractKeys(r, candidates) ==
    IF Len(candidates) = 0 THEN << >>
    ELSE ExtractKey(r, Head(candidates)) \o ExtractKeys(r, Tail(candidates))

\* the module constant API_KEYS
ParseKeys(r, e) ==
    LET keys == ExtractKeys(r, Candidates(r, RAW_KEYS(r, e)))
    IN IF r = "p4a" THEN Dedupe(keys) ELSE keys

\* the apiKey of the sentinel client built when no key is configured
SentinelKey(r) == IF r \in {"gs", "db"} THEN << >> ELSE <<"M", "I", "S", "S", "I", "N", "G", "_", "K", "E", "Y">>

\* the module constant clientPool
BuildPool(r, keys) ==
    IF Len(keys) > 0
    THEN [i \in 1..Len(keys) |-> [apiKey |-> keys[i]]]
    ELSE << [apiKey |-> SentinelKey(r)] >>

\* variant: Math.round in place of Math.floor
RandomIndex_Round(j, n) == (2 * j * n + RandomSteps) \div (2 * RandomSteps)

\* Math.floor(Math.random() * n), Math.random() being j / RandomSteps
RandomIndex(j, n) == (j * n) \div RandomSteps

-----------------------------------------------------------------------------
(* The fixed texts of the generation operations.  "(!)" stands for the      *)
(* warning sign the source texts start with.                                *)

\* "Sorry, I couldn't generate an answer. Please try again."
GS_STUDY_DEFAULT ==
    <<"S", "o", "r", "r", "y", ",", " ", "I", " ", "c", "o", "u", "l", "d", "n", "'",
      "t", " ", "g", "e", "n", "e", "r", "a", "t", "e", " ", "a", "n", " ", "a", "n",
      "s", "w", "e", "r", ".", " ", "P", "l", "e", "a", "s", "e", " ", "t", "r", "y",
      " ", "a", "g", "a", "i", "n", ".">>

\* "All AI servers are currently busy. Please wait a moment and try again."
GS_STUDY_BUSY ==
    <<"A", "l", "l", " ", "A", "I", " ", "s", "e", "r", "v", "e", "r", "s", " ", "a",
      "r", "e", " ", "c", "u", "r", "r", "e", "n", "t", "l", "y", " ", "b", "u", "s",
      "y", ".", " ", "P", "l", "e", "a", "s", "e", " ", "w", "a", "i", "t", " ", "a",
      " ", "m", "o", "m", "e", "n", "t", " ", "a", "n", "d", " ", "t", "r", "y", " ",
      "a", "g", "a", "i", "n", ".">>

\* "Could not generate project content."
GS_PROJECT_DEFAULT ==
    <<"C", "o", "u", "l", "d", " ", "n", "o", "t", " ", "g", "e", "n", "e", "r", "a",
      "t", "e", " ", "p", "r", "o", "j", "e", "c", "t", " ", "c", "o", "n", "t", "e",
      "n", "t", ".">>

\* "Could not generate sample paper."
GS_PAPER_DEFAULT ==
    <<"C", "o", "u", "l", "d", " ", "n", "o", "t", " ", "g", "e", "n", "e", "r", "a",
      "t", "e", " ", "s", "a", "m", "p", "l", "e", " ", "p", "a", "p", "e", "r", ".">>

\* "Server is busy. Please try again in a few moments."
GS_SERVER_BUSY ==
    <<"S", "e", "r", "v", "e", "r", " ", "i", "s", " ", "b", "u", "s", "y", ".", " ",
      "P", "l", "e", "a", "s", "e", " ", "t", "r", "y", " ", "a", "g", "a", "i", "n",
      " ", "i", "n", " ", "a", " ", "f", "e", "w", " ", "m", "o", "m", "e", "n", "t",
      "s", ".">>

\* "Sorry, I couldn't generate an answer."
DB_STUDY_DEFAULT ==
    <<"S", "o", "r", "r", "y", ",", " ", "I", " ", "c", "o", "u", "l", "d", "n", "'",
      "t", " ", "g", "e", "n", "e", "r", "a", "t", "e", " ", "a", "n", " ", "a", "n",
      "s", "w", "e", "r", ".">>

\* "All AI systems are currently at maximum capacity. Please wait 1 minute and try again."
DB_STUDY_BUSY ==
    <<"A", "l", "l", " ", "A", "I", " ", "s", "y", "s", "t", "e", "m", "s", " ", "a",
      "r", "e", " ", "c", "u", "r", "r", "e", "n", "t", "l", "y", " ", "a", "t", " ",
      "m", "a", "x", "i", "m", "u", "m", " ", "c", "a", "p", "a", "c", "i", "t", "y",
      ".", " ", "P", "l", "e", "a", "s", "e", " ", "w", "a", "i", "t", " ", "1", " ",
      "m", "i", "n", "u", "t", "e", " ", "a", "n", "d", " ", "t", "r", "y", " ", "a",
      "g", "a", "i", "n", ".">>

\* "Project generation failed. Please try again."
DB_PROJECT_FAILED ==
    <<"P", "r", "o", "j", "e", "c", "t", " ", "g", "e", "n", "e", "r", "a", "t", "i",
      "o", "n", " ", "f", "a", "i", "l", "e", "d", ".", " ", "P", "l", "e", "a", "s",
      "e", " ", "t", "r", "y", " ", "a", "g", "a", "i", "n", ".">>

\* "Sample paper generation failed. Please try again."
DB_PAPER_FAILED ==
    <<"S", "a", "m", "p", "l", "e", " ", "p", "a", "p", "e", "r", " ", "g", "e", "n",
      "e", "r", "a", "t", "i", "o", "n", " ", "f", "a", "i", "l", "e", "d", ".", " ",
      "P", "l", "e", "a", "s", "e", " ", "t", "r", "y", " ", "a", "g", "a", "i", "n",
      ".">>

\* "No response text generated."
NO_RESPONSE_TEXT ==
    <<"N", "o", " ", "r", "e", "s", "p", "o", "n", "s", "e", " ", "t", "e", "x", "t",
      " ", "g", "e", "n", "e", "r", "a", "t", "e", "d", ".">>

\* "Failed to generate project."
PROJECT_DEFAULT ==
    <<"F", "a", "i", "l", "e", "d", " ", "t", "o", " ", "g", "e", "n", "e", "r", "a",
      "t", "e", " ", "p", "r", "o", "j", "e", "c", "t", ".">>

\* "Failed to generate paper."
PAPER_DEFAULT ==
    <<"F", "a", "i", "l", "e", "d", " ", "t", "o", " ", "g", "e", "n", "e", "r", "a",
      "t", "e", " ", "p", "a", "p", "e", "r", ".">>

\* "Error: No API Keys configured."
NO_KEYS_CONFIGURED ==
    <<"E", "r", "r", "o", "r", ":", " ", "N", "o", " ", "A", "P", "I", " ", "K", "e",
      "y", "s", " ", "c", "o", "n", "f", "i", "g", "u", "r", "e", "d", ".">>

\* "(!) Configuration Error: No API Keys found. Please set API_KEY in your environment variables."
P3_NO_KEYS ==
    <<"(!)", " ", "C", "o", "n", "f", "i", "g", "u", "r", "a", "t", "i", "o", "n", " ",
      "E", "r", "r", "o", "r", ":", " ", "N", "o", " ", "A", "P", "I", " ", "K", "e",
      "y", "s", " ", "f", "o", "u", "n", "d", ".", " ", "P", "l", "e", "a", "s", "e",
      " ", "s", "e", "t", " ", "A", "P", "I", "_", "K", "E", "Y", " ", "i", "n", " ",
      "y", "o", "u", "r", " ", "e", "n", "v", "i", "r", "o", "n", "m", "e", "n", "t",
      " ", "v", "a", "r", "i", "a", "b", "l", "e", "s", ".">>

\* "(!) System Error: No valid API Keys found."
P4A_NO_KEYS ==
    <<"(!)", " ", "S", "y", "s", "t", "e", "m", " ", "E", "r", "r", "o", "r", ":", " ",
      "N", "o", " ", "v", "a", "l", "i", "d", " ", "A", "P", "I", " ", "K", "e", "y",
      "s", " ", "f", "o", "u", "n", "d", ".">>

\* "(!) Configuration Error: No valid API Keys found. Ensure you have pasted keys starting with 'AIzaSy'."
P4B_NO_KEYS ==
    <<"(!)", " ", "C", "o", "n", "f", "i", "g", "u", "r", "a", "t", "i", "o", "n", " ",
      "E", "r", "r", "o", "r", ":", " ", "N", "o", " ", "v", "a", "l", "i", "d", " ",
      "A", "P", "I", " ", "K", "e", "y", "s", " ", "f", "o", "u", "n", "d", ".", " ",
      "E", "n", "s", "u", "r", "e", " ", "y", "o", "u", " ", "h", "a", "v", "e", " ",
      "p", "a", "s", "t", "e", "d", " ", "k", "e", "y", "s", " ", "s", "t", "a", "r",
      "t", "i", "n", "g", " ", "w", "i", "t", "h", " ", "'", "A", "I", "z", "a", "S",
      "y", "'", ".">>

\* "(!) High Traffic: All AI keys are currently busy. Please wait 10 seconds."
HIGH_TRAFFIC_KEYS ==
    <<"(!)", " ", "H", "i", "g", "h", " ", "T", "r", "a", "f", "f", "i", "c", ":", " ",
      "A", "l", "l", " ", "A", "I", " ", "k", "e", "y", "s", " ", "a", "r", "e", " ",
      "c", "u", "r", "r", "e", "n", "t", "l", "y", " ", "b", "u", "s", "y", ".", " ",
      "P", "l", "e", "a", "s", "e", " ", "w", "a", "i", "t", " ", "1", "0", " ", "s",
      "e", "c", "o", "n", "d", "s", ".">>

\* "(!) Configuration Error: The API Key is invalid. Check your .env file format (no quotes, comma separated)."
P3_KEY_INVALID ==
    <<"(!)", " ", "C", "o", "n", "f", "i", "g", "u", "r", "a", "t", "i", "o", "n", " ",
      "E", "r", "r", "o", "r", ":", " ", "T", "h", "e", " ", "A", "P", "I", " ", "K",
      "e", "y", " ", "i", "s", " ", "i", "n", "v", "a", "l", "i", "d", ".", " ", "C",
      "h", "e", "c", "k", " ", "y", "o", "u", "r", " ", ".", "e", "n", "v", " ", "f",
      "i", "l", "e", " ", "f", "o", "r", "m", "a", "t", " ", "(", "n", "o", " ", "q",
      "u", "o", "t", "e", "s", ",", " ", "c", "o", "m", "m", "a", " ", "s", "e", "p",
      "a", "r", "a", "t", "e", "d", ")", ".">>

\* "(!) Key Error: The API Key is invalid or expired. Please check your settings."
P4B_KEY_INVALID ==
    <<"(!)", " ", "K", "e", "y", " ", "E", "r", "r", "o", "r", ":", " ", "T", "h", "e",
      " ", "A", "P", "I", " ", "K", "e", "y", " ", "i", "s", " ", "i", "n", "v", "a",
      "l", "i", "d", " ", "o", "r", " ", "e", "x", "p", "i", "r", "e", "d", ".", " ",
      "P", "l", "e", "a", "s", "e", " ", "c", "h", "e", "c", "k", " ", "y", "o", "u",
      "r", " ", "s", "e", "t", "t", "i", "n", "g", "s", ".">>

\* "(!) System Error: "
SYSTEM_ERROR_PREFIX ==
    <<"(!)", " ", "S", "y", "s", "t", "e", "m", " ", "E", "r", "r", "o", "r", ":", " ">>

\* "Project generation failed due to high load. Please try again."
PROJECT_HIGH_LOAD ==
    <<"P", "r", "o", "j", "e", "c", "t", " ", "g", "e", "n", "e", "r", "a", "t", "i",
      "o", "n", " ", "f", "a", "i", "l", "e", "d", " ", "d", "u", "e", " ", "t", "o",
      " ", "h", "i", "g", "h", " ", "l", "o", "a", "d", ".", " ", "P", "l", "e", "a",
      "s", "e", " ", "t", "r", "y", " ", "a", "g", "a", "i", "n", ".">>

\* "Paper generation failed due to high load. Please try again."
PAPER_HIGH_LOAD ==
    <<"P", "a", "p", "e", "r", " ", "g", "e", "n", "e", "r", "a", "t", "i", "o", "n",
      " ", "f", "a", "i", "l", "e", "d", " ", "d", "u", "e", " ", "t", "o", " ", "h",
      "i", "g", "h", " ", "l", "o", "a", "d", ".", " ", "P", "l", "e", "a", "s", "e",
      " ", "t", "r", "y", " ", "a", "g", "a", "i", "n", ".">>

\* "(!) High Traffic: My servers are a bit busy right now. Please try asking again in a few seconds!"
P4A_STUDY_BUSY ==
    <<"(!)", " ", "H", "i", "g", "h", " ", "T", "r", "a", "f", "f", "i", "c", ":", " ",
      "M", "y", " ", "s", "e", "r", "v", "e", "r", "s", " ", "a", "r", "e", " ", "a",
      " ", "b", "i", "t", " ", "b", "u", "s", "y", " ", "r", "i", "g", "h", "t", " ",
      "n", "o", "w", ".", " ", "P", "l", "e", "a", "s", "e", " ", "t", "r", "y", " ",
      "a", "s", "k", "i", "n", "g", " ", "a", "g", "a", "i", "n", " ", "i", "n", " ",
      "a", " ", "f", "e", "w", " ", "s", "e", "c", "o", "n", "d", "s", "!">>

\* "(!) High Traffic: Unable to generate project right now. Please try again later."
P4A_PROJECT_BUSY ==
    <<"(!)", " ", "H", "i", "g", "h", " ", "T", "r", "a", "f", "f", "i", "c", ":", " ",
      "U", "n", "a", "b", "l", "e", " ", "t", "o", " ", "g", "e", "n", "e", "r", "a",
      "t", "e", " ", "p", "r", "o", "j", "e", "c", "t", " ", "r", "i", "g", "h", "t",
      " ", "n", "o", "w", ".", " ", "P", "l", "e", "a", "s", "e", " ", "t", "r", "y",
      " ", "a", "g", "a", "i", "n", " ", "l", "a", "t", "e", "r", ".">>

\* "(!) High Traffic: Unable to generate paper right now. Please try again later."
P4A_PAPER_BUSY ==
    <<"(!)", " ", "H", "i", "g", "h", " ", "T", "r", "a", "f", "f", "i", "c", ":", " ",
      "U", "n", "a", "b", "l", "e", " ", "t", "o", " ", "g", "e", "n", "e", "r", "a",
      "t", "e", " ", "p", "a", "p", "e", "r", " ", "r", "i", "g", "h", "t", " ", "n",
      "o", "w", ".", " ", "P", "l", "e", "a", "s", "e", " ", "t", "r", "y", " ", "a",
      "g", "a", "i", "n", " ", "l", "a", "t", "e", "r", ".">>

\* "All AI keys are currently busy or invalid."
ALL_KEYS_BUSY ==
    <<"A", "l", "l", " ", "A", "I", " ", "k", "e", "y", "s", " ", "a", "r", "e", " ",
      "c", "u", "r", "r", "e", "n", "t", "l", "y", " ", "b", "u", "s", "y", " ", "o",
      "r", " ", "i", "n", "v", "a", "l", "i", "d", ".">>

-----------------------------------------------------------------------------
(* Backend outcomes: the errors operation(client, model) can reject with and  *)
(* the responses it can resolve with.  status 0 is an absent status, the      *)
(* empty message an absent message (both are falsy in the source's tests).    *)

\* the value of lastError before any call failed (undefined)
NoError == [id |-> "undefined", status |-> 0, respStatus |-> 0, message |-> << >>]

E_429 ==
    [id |-> "E_429", status |-> 429, respStatus |-> 0,
     message |-> <<>>]
E_503 ==
    [id |-> "E_503", status |-> 0, respStatus |-> 503,
     message |-> <<"T", "h", "e", " ", "m", "o", "d", "e", "l", " ", "i", "s", " ", "o", "v", "e", "r", "l", "o", "a", "d", "e", "d">>]
E_QUOTA ==
    [id |-> "E_QUOTA", status |-> 0, respStatus |-> 0,
     message |-> <<"Q", "u", "o", "t", "a", " ", "e", "x", "c", "e", "e", "d", "e", "d">>]
E_404 ==
    [id |-> "E_404", status |-> 404, respStatus |-> 0,
     message |-> <<"m", "o", "d", "e", "l", " ", "i", "s", " ", "n", "o", "t", " ", "f", "o", "u", "n", "d">>]
E_KEY ==
    [id |-> "E_KEY", status |-> 0, respStatus |-> 0,
     message |-> <<"A", "P", "I", " ", "k", "e", "y", " ", "n", "o", "t", " ", "v", "a", "l", "i", "d">>]
E_FETCH ==
    [id |-> "E_FETCH", status |-> 0, respStatus |-> 0,
     message |-> <<"f", "e", "t", "c", "h", " ", "f", "a", "i", "l", "e", "d">>]

Errors == {E_429, E_503, E_QUOTA, E_404, E_KEY, E_FETCH}

\* errors whose status and message point to different classes, and busy
\* messages without a status, in several letter cases
E_429_NOTFOUND ==
    [id |-> "E_429_NOTFOUND", status |-> 429, respStatus |-> 0,
     message |-> <<"m", "o", "d", "e", "l", " ", "n", "o", "t", " ", "f", "o", "u", "n", "d">>]
E_403_SUPPORTED ==
    [id |-> "E_403_SUPPORTED", status |-> 403, respStatus |-> 0,
     message |-> <<"m", "e", "t", "h", "o", "d", " ", "n", "o", "t", " ", "s", "u", "p", "p", "o", "r", "t", "e", "d">>]
E_OVERLOADED ==
    [id |-> "E_OVERLOADED", status |-> 0, respStatus |-> 0,
     message |-> <<"M", "o", "d", "e", "l", " ", "o", "v", "e", "r", "l", "o", "a", "d", "e", "d">>]
E_EXHAUSTED ==
    [id |-> "E_EXHAUSTED", status |-> 0, respStatus |-> 0,
     message |-> <<"R", "E", "S", "O", "U", "R", "C", "E", "_", "E", "X", "H", "A", "U", "S", "T", "E", "D">>]
E_BUSY ==
    [id |-> "E_BUSY", status |-> 0, respStatus |-> 0,
     message |-> <<"S", "e", "r", "v", "e", "r", " ", "b", "u", "s", "y">>]

MoreErrors == {E_429_NOTFOUND, E_403_SUPPORTED, E_OVERLOADED, E_EXHAUSTED, E_BUSY}

\* a failure whose status property is 503, with a message of no class
E_503_STATUS ==
    [id |-> "E_503_STATUS", status |-> 503, respStatus |-> 0,
     message |-> <<"S", "e", "r", "v", "i", "c", "e", " ", "U", "n", "a", "v", "a", "i", "l", "a", "b", "l", "e">>]

\* the failures with a rate-limited status
StatusErrors == {E_429, E_503_STATUS}

\* new Error("All AI keys are currently busy or invalid.")
AllKeysBusyError ==
    [id |-> "AllKeysBusy", status |-> 0, respStatus |-> 0, message |-> ALL_KEYS_BUSY]

R_NONE == [id |-> "R_NONE", hasText |-> FALSE, text |-> << >>]
R_EMPTY == [id |-> "R_EMPTY", hasText |-> TRUE, text |-> << >>]
R_TEXT == [id |-> "R_TEXT", hasText |-> TRUE, text |-> <<"A", "n", " ", "a", "t", "o", "m">>]
R_BOLD == [id |-> "R_BOLD", hasText |-> TRUE, text |-> <<"*", "*", "C", "e", "l", "l", "*", "*", " ", "*", "i", "s", "*">>]
R_ARRAY == [id |-> "R_ARRAY", hasText |-> TRUE, text |-> <<"[", "1", "]">>]
R_OBJECT == [id |-> "R_OBJECT", hasText |-> TRUE, text |-> <<"{", "}">>]

Responses == {R_NONE, R_EMPTY, R_TEXT, R_BOLD, R_ARRAY, R_OBJECT}

-----------------------------------------------------------------------------
(* Failure classification *)

\* error.status || error.response?.status
StatusOf(e) == IF e.status # 0 THEN e.status ELSE e.respStatus

\* isRateLimit of the revision
IsRateLimit(r, e) ==
    CASE r = "gs" ->
            \/ e.status = 429
            \/ Includes(e.message, <<"4", "2", "9">>)
            \/ Includes(e.message, <<"e", "x", "h", "a", "u", "s", "t", "e", "d">>)
      [] r = "db" ->
            \/ e.status = 429
            \/ e.status = 503
            \/ Includes(e.message, <<"4", "2", "9">>)
            \/ Includes(e.message, <<"e", "x", "h", "a", "u", "s", "t", "e", "d">>)
            \/ Includes(e.message, <<"o", "v", "e", "r", "l", "o", "a", "d", "e", "d">>)
      [] r \in LoopRevs ->
            LET msg == ToLowerCase(e.message)
                status == StatusOf(e)
            IN \/ status = 429
               \/ status = 503
               \/ Includes(msg, <<"4", "2", "9">>)
               \/ Includes(msg, <<"q", "u", "o", "t", "a">>)
               \/ Includes(msg, <<"e", "x", "h", "a", "u", "s", "t", "e", "d">>)
               \/ Includes(msg, <<"b", "u", "s", "y">>)

\* isModelError of the loop revisions; the recursive ones have no such class
IsModelError(r, e) ==
    /\ r \in LoopRevs
    /\ LET msg == ToLowerCase(e.message)
           status == StatusOf(e)
       IN \/ status = 404
          \/ status = 400
          \/ Includes(msg, <<"n", "o", "t", " ", "f", "o", "u", "n", "d">>)
          \/ Includes(msg, <<"s", "u", "p", "p", "o", "r", "t", "e", "d">>)

\* isAuthError of the loop revisions
IsAuthError(r, e) ==
    /\ r \in LoopRevs
    /\ LET msg == ToLowerCase(e.message)
           status == StatusOf(e)
       IN \/ status = 401
          \/ status = 403
          \/ Includes(msg, <<"k", "e", "y">>)
          \/ Includes(msg, <<"a", "p", "i", " ", "k", "e", "y">>)
          \/ (r \in {"p4a", "p4b"} /\ Includes(msg, <<"p", "e", "r", "m", "i", "s", "s", "i", "o", "n">>))

\* variant: a model-unavailable failure leaves the inner loop like a busy key
Decision_BreakOnModelError(r, e) ==
    IF IsModelError(r, e) \/ IsRateLimit(r, e) \/ IsAuthError(r, e) THEN "break"
    ELSE "throw"

\* variant: an unclassified failure leaves the inner loop instead of being thrown
Decision_RetryUnknown(r, e) == IF IsModelError(r, e) THEN "continue" ELSE "break"

\* variant: a model-unavailable failure is thrown like an unclassified one
Decision_ThrowOnModelError(r, e) ==
    IF IsModelError(r, e) THEN "throw"
    ELSE IF IsRateLimit(r, e) \/ IsAuthError(r, e) THEN "break"
    ELSE "throw"

\* what the catch block of the loop revisions does with a failed call
Decision(r, e) ==
    IF IsModelError(r, e) THEN "continue"
    ELSE IF IsRateLimit(r, e) \/ IsAuthError(r, e) THEN "break"
    ELSE "throw"

\* the error matches no status code and no message substring of the revision
IsFatal(r, e) == ~IsRateLimit(r, e) /\ ~IsModelError(r, e) /\ ~IsAuthError(r, e)

\* the classification of the errors of the model, computed once
Classified ==
    [r \in Revisions, e \in Errors \cup MoreErrors \cup StatusErrors |->
        [decision |-> Decision(r, e), rateLimit |-> IsRateLimit(r, e),
         modelError |-> IsModelError(r, e), authError |-> IsAuthError(r, e),
         fatal |-> IsFatal(r, e)]]


-----------------------------------------------------------------------------
(* Delays are rationals << numerator, denominator >> in lowest terms:        *)
(* 1000 * 1.5^k is exact in a JavaScript double for every k the model meets. *)

RECURSIVE GCD(_, _)
GCD(a, b) == IF b = 0 THEN a ELSE GCD(b, a % b)

Rat(n, d) == IF n = 0 THEN << 0, 1 >> ELSE << n \div GCD(n, d), d \div GCD(n, d) >>

RECURSIVE Pow(_, _)
Pow(b, k) == IF k = 0 THEN 1 ELSE b * Pow(b, k - 1)

\* variant: baseDelay * (1 + attempt / 2), linear growth
BackoffDelay_Linear(b, k) == Rat(b[1] * (2 + k), b[2] * 2)

\* baseDelay * Math.pow(1.5, attempt)
BackoffDelay(b, k) == Rat(b[1] * Pow(3, k), b[2] * Pow(2, k))

\* baseDelay * 1.5
GrowDelay(b) == Rat(b[1] * 3, b[2] * 2)

RatLeq(a, b) == a[1] * b[2] <= b[1] * a[2]

Max(a, b) == IF a > b THEN a ELSE b

-----------------------------------------------------------------------------
(* Dispatcher configuration *)

\* the models a dispatch tries, in order; gs and db name one model in the closure
MODEL_FALLBACKS(r) ==
    CASE r = "p3" -> << "gemini-2.0-flash", "gemini-1.5-flash", "gemini-1.5-flash-latest" >>
      [] r \in {"p4a", "p4b"} ->
            << "gemini-1.5-flash", "gemini-1.5-flash-latest", "gemini-2.0-flash" >>
      [] r \in RecursiveRevs -> << "gemini-3-flash-preview" >>

\* variant: the key count alone, without the floor of 3
DefaultRetries_KeyCount(r, keys) == Len(keys)

\* the default of the retries parameter
DefaultRetries(r, keys) == IF r \in LoopRevs THEN Max(3, Len(keys) + 1) ELSE 3

\* the default of the baseDelay parameter
DefaultBaseDelay(r) == IF r = "gs" THEN << 2000, 1 >> ELSE << 1000, 1 >>

\* variant: every revision ends with the generic error of part_004:137
FinalError_Generic(r, last) == AllKeysBusyError

\* the error thrown once the outer loop is used up
FinalError(r, last) == IF r = "p4a" THEN AllKeysBusyError ELSE last

-----------------------------------------------------------------------------
(* Generation operations: guard, post-processing, fallback texts *)

TextOps == {"getStudyAnswer", "getProjectContent", "getSamplePaper"}
GenOps == TextOps \cup {"getQuizQuestions"}

NoReturn == [kind |-> "none", val |-> << >>]
Str(s) == [kind |-> "string", val |-> s]
List(l) == [kind |-> "list", val |-> l]

\* the operation starts with: if (API_KEYS.length === 0) return ...
HasGuard(r) == r \in LoopRevs

GuardResult(r, op) ==
    CASE op = "getQuizQuestions" -> List(<< >>)
      [] op = "getStudyAnswer" ->
            Str(CASE r = "p3" -> P3_NO_KEYS [] r = "p4a" -> P4A_NO_KEYS
                  [] OTHER -> P4B_NO_KEYS)
      [] OTHER -> Str(NO_KEYS_CONFIGURED)

\* the text substituted for an absent or empty response.text
DefaultText(r, op) ==
    CASE r = "gs" ->
            (CASE op = "getStudyAnswer" -> GS_STUDY_DEFAULT
               [] op = "getProjectContent" -> GS_PROJECT_DEFAULT
               [] OTHER -> GS_PAPER_DEFAULT)
      [] r = "p4a" -> NO_RESPONSE_TEXT
      [] OTHER ->
            (CASE op = "getStudyAnswer" ->
                    IF r = "db" THEN DB_STUDY_DEFAULT ELSE NO_RESPONSE_TEXT
               [] op = "getProjectContent" -> PROJECT_DEFAULT
               [] OTHER -> PAPER_DEFAULT)

\* variant: text.replace(/\*\*/, ''), without the g flag: the first pair only
ReplaceBold_First(s) ==
    IF Includes(s, << "*", "*" >>)
    THEN SubSeq(s, 1, IndexOf(s, << "*", "*" >>))
         \o SubSeq(s, IndexOf(s, << "*", "*" >>) + 3, Len(s))
    ELSE s

\* text.replace(/\*\*/g, ''): matches are taken left to right and do not overlap,
\* so of a run of asterisks the pairs go and the last of an odd run stays
ReplaceBold(s) ==
    LET RunStart(i) == CHOOSE j \in 1..i :
                           /\ \A k \in j..i : s[k] = "*"
                           /\ (j = 1 \/ s[j - 1] # "*")
        Removed(i) ==
            /\ s[i] = "*"
            /\ \/ (i - RunStart(i) + 1) % 2 = 0
               \/ (i < Len(s) /\ s[i + 1] = "*")
        kept == Ascending({i \in 1..Len(s) : ~Removed(i)})
    IN [k \in 1..Len(kept) |-> s[kept[k]]]

\* cleanText of p4a: text.replace(/\*/g, '').trim(), the default for no text
cleanText(resp) ==
    IF ~resp.hasText \/ resp.text = << >> THEN NO_RESPONSE_TEXT
    ELSE Trim(RemoveChars(resp.text, {"*"}))

\* response texts holding one quiz record: the answer among the options, or not
QUIZ_RIGHT_JSON ==
    <<"[", "{", "\"", "o", "p", "t", "i", "o", "n", "s", "\"", ":", "[", "\"", "a",
      "\"", ",", "\"", "b", "\"", "]", ",", "\"", "c", "o", "r", "r", "e", "c", "t",
      "A", "n", "s", "w", "e", "r", "\"", ":", "\"", "a", "\"", "}", "]">>

QUIZ_WRONG_JSON ==
    <<"[", "{", "\"", "o", "p", "t", "i", "o", "n", "s", "\"", ":", "[", "\"", "a",
      "\"", ",", "\"", "b", "\"", "]", ",", "\"", "c", "o", "r", "r", "e", "c", "t",
      "A", "n", "s", "w", "e", "r", "\"", ":", "\"", "c", "\"", "}", "]">>

\* JSON.parse on the response texts of the model: whether it returns, and what
JSONParse(text) ==
    CASE text = <<"[", "1", "]">> ->
              [ok |-> TRUE, isArray |-> TRUE, items |-> << [type |-> "number"] >>]
      [] text = QUIZ_RIGHT_JSON ->
              [ok |-> TRUE, isArray |-> TRUE,
               items |-> << [type |-> "object", options |-> << <<"a">>, <<"b">> >>,
                             correctAnswer |-> <<"a">>] >>]
      [] text = QUIZ_WRONG_JSON ->
              [ok |-> TRUE, isArray |-> TRUE,
               items |-> << [type |-> "object", options |-> << <<"a">>, <<"b">> >>,
                             correctAnswer |-> <<"c">>] >>]
      [] text = <<"[", "]">> -> [ok |-> TRUE, isArray |-> TRUE, items |-> << >>]
      [] text = <<"{", "}">> -> [ok |-> TRUE, isArray |-> FALSE, items |-> << >>]
      [] text = <<"1">> -> [ok |-> TRUE, isArray |-> FALSE, items |-> << >>]
      [] text = <<"n", "u", "l", "l">> -> [ok |-> TRUE, isArray |-> FALSE, items |-> << >>]
      [] OTHER -> [ok |-> FALSE, isArray |-> FALSE, items |-> << >>]

\* variant: the parsed value is returned without the Array.isArray test
OnSuccess_NoArrayTest(r, op, resp) ==
    IF op = "getQuizQuestions"
    THEN IF resp.hasText /\ resp.text # << >>
         THEN LET parsed == JSONParse(resp.text)
              IN IF parsed.ok THEN List(<< parsed.items >>) ELSE List(<< >>)
         ELSE List(<< >>)
    ELSE IF r = "p4a" THEN Str(cleanText(resp))
    ELSE Str(ReplaceBold(IF ~resp.hasText \/ resp.text = << >>
                         THEN DefaultText(r, op) ELSE resp.text))

\* what the operation returns when generateWithRetry returned resp
OnSuccess(r, op, resp) ==
    IF op = "getQuizQuestions"
    THEN IF resp.hasText /\ resp.text # << >>
         THEN LET parsed == JSONParse(resp.text)
              IN IF parsed.ok /\ parsed.isArray THEN List(parsed.items) ELSE List(<< >>)
         ELSE List(<< >>)
    ELSE IF r = "p4a" THEN Str(cleanText(resp))
    ELSE Str(ReplaceBold(IF ~resp.hasText \/ resp.text = << >>
                         THEN DefaultText(r, op) ELSE resp.text))

\* the catch block of getStudyAnswer in p3 and p4b
StudyFailureText(r, err) ==
    LET msg == ToLowerCase(err.message)
    IN IF Includes(msg, <<"4", "2", "9">>) \/ Includes(msg, <<"q", "u", "o", "t", "a">>)
       THEN HIGH_TRAFFIC_KEYS
       ELSE IF \/ Includes(msg, <<"k", "e", "y">>)
               \/ Includes(msg, <<"4", "0", "3">>)
               \/ Includes(msg, <<"4", "0", "1">>)
            THEN (IF r = "p3" THEN P3_KEY_INVALID ELSE P4B_KEY_INVALID)
            ELSE SYSTEM_ERROR_PREFIX \o SubstringTo(msg, 100)

\* variant: no catch block, the error of generateWithRetry rejects the operation
OnFailure_Rethrow(r, op, err) == [kind |-> "rejected", val |-> err.message]

\* what the operation returns when generateWithRetry threw err
OnFailure(r, op, err) ==
    CASE op = "getQuizQuestions" -> List(<< >>)
      [] op = "getStudyAnswer" ->
            Str(CASE r = "gs" -> GS_STUDY_BUSY
                  [] r = "db" -> DB_STUDY_BUSY
                  [] r = "p4a" -> P4A_STUDY_BUSY
                  [] OTHER -> StudyFailureText(r, err))
      [] op = "getProjectContent" ->
            Str(CASE r = "gs" -> GS_SERVER_BUSY
                  [] r = "db" -> DB_PROJECT_FAILED
                  [] r = "p4a" -> P4A_PROJECT_BUSY
                  [] OTHER -> PROJECT_HIGH_LOAD)
      [] op = "getSamplePaper" ->
            Str(CASE r = "gs" -> GS_SERVER_BUSY
                  [] r = "db" -> DB_PAPER_FAILED
                  [] r = "p4a" -> P4A_PAPER_BUSY
                  [] OTHER -> PAPER_HIGH_LOAD)
      [] OTHER -> NoReturn

-----------------------------------------------------------------------------
(* Configurations the module is loaded with *)

\* the i-th credential written into configurations
TestKey(i) == KeyOf(LowerCase[i])

\* configurations of the dispatch specification: n keys, comma separated
DispatchConfigs ==
    {[text |-> Join([i \in 1..n |-> TestKey(i)], << "," >>),
      keys |-> {TestKey(i) : i \in 1..n}] : n \in 0..MaxKeys}

\* one entry of a configuration: a key, optionally quoted, optionally after NAME=
Items == [key : 1..2, quoted : BOOLEAN, prefixed : BOOLEAN]

Separators == {<< "," >>, << ";" >>, << "\n" >>, << "|" >>, << " " >>, << ",", " " >>}

RenderItem(it) ==
    (IF it.prefixed THEN <<"A", "P", "I", "_", "K", "E", "Y", "=">> ELSE << >>)
    \o (IF it.quoted THEN << "\"" >> ELSE << >>)
    \o TestKey(it.key)
    \o (IF it.quoted THEN << "\"" >> ELSE << >>)

RECURSIVE RenderConfig(_, _)
RenderConfig(items, seps) ==
    IF Len(items) = 1 THEN RenderItem(items[1])
    ELSE RenderItem(items[1]) \o seps[1] \o RenderConfig(Tail(items), Tail(seps))

\* configurations of the parsing specification: n entries, n - 1 separators
ParsingConfigs(n) ==
    {[text |-> RenderConfig(items, seps),
      keys |-> {TestKey(items[i].key) : i \in 1..n}] :
        items \in [1..n -> Items], seps \in [1..(n - 1) -> Separators]}

-----------------------------------------------------------------------------
(* The db object of db.ts: session, login, chat messages *)

\* dbRev is "db1" for the db object of db.ts 1-379, "db2" for db.ts 380-678

NoUser == [username |-> << >>, email |-> << >>]

\* the row of profiles whose username is u, NoUser if there is none
ProfileOf(u, rows) ==
    IF \E p \in rows : p.username = u
    THEN CHOOSE p \in rows : p.username = u
    ELSE NoUser

\* db.getSession: the profile of the stored username, NoUser for null
getSession(stored, rows) == IF stored = << >> THEN NoUser ELSE ProfileOf(stored, rows)

NoLogin ==
    [pc |-> "idle", username |-> << >>, email |-> << >>, userByUsername |-> NoUser,
     storedBefore |-> << >>, sessionBefore |-> NoUser]

\* the calls of sendPrivateMessage / sendGroupMessage in progress
Senders == {1, 2, 3}

NoSends == [s \in Senders |-> [pc |-> "idle", read |-> << >>]]

\* the db object with no operation called
InitDatabase ==
    /\ dbRev = "db2"
    /\ isMockMode = FALSE
    /\ storedUsername = << >>
    /\ profiles = {}
    /\ login = NoLogin
    /\ messages = << >>
    /\ sends = NoSends

-----------------------------------------------------------------------------
(* State after the module is loaded *)

NoOutcome == [kind |-> "none", val |-> NoError]

\* the locals of the generateWithRetry call that is running, with the
\* observations made of it
Locals ==
    [pc |-> pc, entry |-> entry, retries |-> retries, baseDelay |-> baseDelay,
     attempt |-> attempt, mi |-> mi, client |-> client, lastError |-> lastError,
     dresult |-> dresult, ret |-> ret, maxAttempts |-> maxAttempts,
     nCalls |-> nCalls, nStarted |-> nStarted, nPicks |-> nPicks,
     delays |-> delays, lastOut |-> lastOut, allRL |-> allRL,
     uniform |-> uniform, fallbackRun |-> fallbackRun]

\* the service module after loading a revision with one of configs; with
\* oneModel the loop revisions are given the first entry of their model list
InitService(configs, oneModel) ==
    /\ rev \in Revisions
    /\ models = IF oneModel THEN SubSeq(MODEL_FALLBACKS(rev), 1, 1)
                ELSE MODEL_FALLBACKS(rev)
    /\ \E c \in configs :
          /\ env = [API_KEY |-> c.text, GEMINI_API_KEY |-> << >>,
                    REACT_APP_API_KEY |-> << >>]
          /\ cfgKeys = c.keys
    /\ API_KEYS = ParseKeys(rev, env)
    /\ clientPool = BuildPool(rev, API_KEYS)
    /\ pc = "idle"
    /\ entry = "none"
    /\ retries = 0
    /\ baseDelay = << 0, 1 >>
    /\ attempt = 0
    /\ mi = 0
    /\ client = -1
    /\ lastError = NoError
    /\ dresult = NoOutcome
    /\ ret = NoReturn
    /\ maxAttempts = 0
    /\ nCalls = 0
    /\ nStarted = 0
    /\ nPicks = 0
    /\ delays = << >>
    /\ lastOut = NoOutcome
    /\ allRL = TRUE
    /\ uniform = "none"
    /\ fallbackRun = TRUE
    /\ other = Locals

\* the state after loading a revision, no db operation called
InitModels(configs, oneModel) == InitService(configs, oneModel) /\ InitDatabase

InitWith(configs) == InitModels(configs, FALSE)

Init == InitWith(DispatchConfigs)

InitKeys == \E n \in 1..MaxItems : InitWith(ParsingConfigs(n))

-----------------------------------------------------------------------------
(* Actions *)

config == << rev, env, cfgKeys, API_KEYS, clientPool, models >>

\* variant: the clients are taken in turn, never the same one twice in a row
getRandomClient_InTurn(j) == (client + 1) % Len(clientPool)

\* getRandomClient: the index it draws
getRandomClient(j) == RandomIndex(j, Len(clientPool))

\* the observation uniform after a call with outcome id
Observe(id) == IF uniform \in {"none", id} THEN id ELSE "mixed"

\* variant: an empty response is returned in place of the call's result
Returned_Empty(resp) == [kind |-> "value", val |-> R_NONE]

\* the values generateWithRetry ends with
Returned(resp) == [kind |-> "value", val |-> resp]
Thrown(err) == [kind |-> "error", val |-> err]

\* the operation's return once generateWithRetry ended with outcome d
Finish(d) ==
    /\ dresult' = d
    /\ ret' = IF entry \notin GenOps THEN NoReturn
              ELSE IF d.kind = "value" THEN OnSuccess(rev, entry, d.val)
              ELSE OnFailure(rev, entry, d.val)
    /\ pc' = "done"

\* variant: operation is called for every model at once, none awaited
BeginAttempt_AllModels ==
    /\ \E j \in 0..(RandomSteps - 1) : client' = getRandomClient(j)
    /\ nPicks' = nPicks + 1
    /\ nStarted' = nStarted + Len(models)
    /\ mi' = 1
    /\ pc' = "inflight"

\* an outer attempt begins: pick a client, call operation with the first model
BeginAttempt ==
    /\ \E j \in 0..(RandomSteps - 1) : client' = getRandomClient(j)
    /\ nPicks' = nPicks + 1
    /\ nStarted' = nStarted + 1
    /\ mi' = 1
    /\ pc' = "inflight"

\* generateWithRetry(operation, r, b) runs up to its first await
BeginDispatch(op, r, b) ==
    /\ entry' = op
    /\ retries' = r
    /\ baseDelay' = b
    /\ maxAttempts' = r
    /\ BeginAttempt
    /\ UNCHANGED << config, database, attempt, lastError, dresult, ret, nCalls, delays,
                    lastOut, allRL, uniform, fallbackRun, other >>

\* the caller invokes one of the four generation operations
Request(op) ==
    /\ pc = "idle"
    /\ IF HasGuard(rev) /\ Len(API_KEYS) = 0
       THEN /\ entry' = op
            /\ ret' = GuardResult(rev, op)
            /\ pc' = "done"
            /\ UNCHANGED << config, database, retries, baseDelay, attempt, mi, client, lastError,
                            dresult, maxAttempts, nCalls, nStarted, nPicks, delays,
                            lastOut, allRL, uniform, fallbackRun, other >>
       ELSE BeginDispatch(op, DefaultRetries(rev, API_KEYS), DefaultBaseDelay(rev))

\* generateWithRetry called with explicit retries and baseDelay
DirectCall(r, b) ==
    /\ pc = "idle"
    /\ BeginDispatch("generateWithRetry", r, b)

\* the call in flight resolves with resp: return await operation(client, model)
OpResolves(resp) ==
    /\ pc = "inflight"
    /\ nCalls' = nCalls + 1
    /\ lastOut' = [kind |-> "ok", val |-> resp]
    /\ allRL' = FALSE
    /\ uniform' = Observe(resp.id)
    /\ fallbackRun' = (fallbackRun /\ mi = Len(models))
    /\ Finish(Returned(resp))
    /\ UNCHANGED << config, database, entry, retries, baseDelay, attempt, mi, client, lastError,
                    maxAttempts, nStarted, nPicks, delays, other >>

\* variant: without the test attempt < retries, the delay is awaited after the
\* last attempt as well
AfterModels_WaitsAfterLast(e) ==
    IF attempt < retries
    THEN /\ delays' = Append(delays, BackoffDelay(baseDelay, attempt))
         /\ pc' = "sleeping"
         /\ UNCHANGED << attempt, mi, dresult, ret >>
    ELSE /\ attempt' = attempt + 1
         /\ delays' = Append(delays, BackoffDelay(baseDelay, attempt))
         /\ Finish(Thrown(FinalError(rev, e)))
         /\ UNCHANGED mi

\* the inner loop of a loop revision is left without a result: wait, or give up
AfterModels(e) ==
    IF attempt < retries
    THEN /\ delays' = Append(delays, BackoffDelay(baseDelay, attempt))
         /\ pc' = "sleeping"
         /\ UNCHANGED << attempt, mi, dresult, ret >>
    ELSE /\ attempt' = attempt + 1
         /\ Finish(Thrown(FinalError(rev, e)))
         /\ UNCHANGED << mi, delays >>

\* the catch block of a loop revision
LoopCatch(e) ==
    /\ lastError' = e
    /\ nStarted' = IF /\ Classified[rev, e].decision = "continue"
                      /\ mi < Len(models)
                   THEN nStarted + 1 ELSE nStarted
    /\ CASE Classified[rev, e].decision = "continue" ->
              IF mi < Len(models)
              THEN /\ mi' = mi + 1
                   /\ pc' = "inflight"
                   /\ UNCHANGED << attempt, delays, dresult, ret >>
              ELSE AfterModels(e)
         [] Classified[rev, e].decision = "break" -> AfterModels(e)
         [] OTHER -> /\ Finish(Thrown(e))
                     /\ UNCHANGED << attempt, mi, delays >>
    /\ UNCHANGED << retries, baseDelay >>

\* the catch block of a recursive revision
RecursiveCatch(e) ==
    /\ IF retries > 0 /\ Classified[rev, e].rateLimit
       THEN /\ delays' = Append(delays, baseDelay)
            /\ pc' = "sleeping"
            /\ UNCHANGED << dresult, ret >>
       ELSE /\ Finish(Thrown(e))
            /\ UNCHANGED delays
    /\ UNCHANGED << retries, baseDelay, attempt, mi, lastError, nStarted >>

\* the call in flight rejects with e
OpRejects(e) ==
    /\ pc = "inflight"
    /\ nCalls' = nCalls + 1
    /\ lastOut' = [kind |-> "err", val |-> e]
    /\ allRL' = (allRL /\ Classified[rev, e].rateLimit)
    /\ uniform' = Observe(e.id)
    /\ fallbackRun' = (fallbackRun /\ mi < Len(models)
                                   /\ Classified[rev, e].modelError)
    /\ IF rev \in LoopRevs THEN LoopCatch(e) ELSE RecursiveCatch(e)
    /\ UNCHANGED << config, database, entry, client, maxAttempts, nPicks, other >>

\* the backoff timer fires: the next outer attempt, or the recursive call
TimerFires ==
    /\ pc = "sleeping"
    /\ IF rev \in LoopRevs
       THEN /\ attempt' = attempt + 1
            /\ UNCHANGED << retries, baseDelay >>
       ELSE /\ retries' = retries - 1
            /\ baseDelay' = GrowDelay(baseDelay)
            /\ UNCHANGED attempt
    /\ BeginAttempt
    /\ UNCHANGED << config, database, entry, lastError, dresult, ret, maxAttempts, nCalls,
                    delays, lastOut, allRL, uniform, fallbackRun, other >>

\* getRandomClient called on its own
PickClient ==
    /\ pc = "idle"
    /\ \E j \in 0..(RandomSteps - 1) : client' = getRandomClient(j)
    /\ UNCHANGED << config, database, pc, entry, retries, baseDelay, attempt, mi, lastError,
                    dresult, ret, maxAttempts, nCalls, nStarted, nPicks, delays,
                    lastOut, allRL, uniform, fallbackRun, other >>

\* the baseDelay arguments of direct calls
DirectBaseDelays == {<< 0, 1 >>, << 1000, 1 >>}

Next ==
    \/ \E op \in GenOps : Request(op)
    \/ \E r \in 0..MaxRetries, b \in DirectBaseDelays : DirectCall(r, b)
    \/ \E resp \in Responses : OpResolves(resp)
    \/ \E e \in Errors : OpRejects(e)
    \/ TimerFires

Spec == Init /\ [][Next]_vars

NextKeys == PickClient

SpecKeys == InitKeys /\ [][NextKeys]_vars

-----------------------------------------------------------------------------
(* Replies: one request whose first call resolves, over every short text *)

\* the longest generated response text
MaxText == 4

TextChars == {"*", " ", "a"}

\* every text of at most MaxText characters over TextChars
Texts == UNION {{AsTuple(f) : f \in [1..n -> TextChars]} : n \in 0..MaxText}

\* response texts for JSON.parse: arrays, other values, a truncated array
JsonTexts ==
    {<<"[", "1", "]">>, <<"[", "]">>, <<"{", "}">>, <<"1">>, <<"n", "u", "l", "l">>,
     <<"[", "1">>, QUIZ_RIGHT_JSON, QUIZ_WRONG_JSON}

\* a response whose text is t
ReplyOf(t) == [id |-> "R_GIVEN", hasText |-> TRUE, text |-> t]

InitText == InitWith({c \in DispatchConfigs : Cardinality(c.keys) = 1})

NextText ==
    \/ \E op \in GenOps : Request(op)
    \/ \E t \in Texts \cup JsonTexts : OpResolves(ReplyOf(t))
    \/ OpResolves(R_NONE)

SpecText == InitText /\ [][NextText]_vars

-----------------------------------------------------------------------------
(* Failures: requests with one key configured, over the larger error catalog *)

NextErrors ==
    \/ \E op \in GenOps : Request(op)
    \/ OpResolves(R_TEXT)
    \/ \E e \in Errors \cup MoreErrors : OpRejects(e)
    \/ TimerFires

SpecErrors == InitText /\ [][NextErrors]_vars

-----------------------------------------------------------------------------
(* Two calls: a second generateWithRetry call runs while the first is suspended *)

\* variant: the attempt counter is one module-level variable for every call
Switch_SharedAttempt ==
    /\ pc # "idle" \/ other.pc # "idle"
    /\ other' = [Locals EXCEPT !.attempt = other.attempt]
    /\ pc' = other.pc
    /\ entry' = other.entry
    /\ retries' = other.retries
    /\ baseDelay' = other.baseDelay
    /\ mi' = other.mi
    /\ client' = other.client
    /\ lastError' = other.lastError
    /\ dresult' = other.dresult
    /\ ret' = other.ret
    /\ maxAttempts' = other.maxAttempts
    /\ nCalls' = other.nCalls
    /\ nStarted' = other.nStarted
    /\ nPicks' = other.nPicks
    /\ delays' = other.delays
    /\ lastOut' = other.lastOut
    /\ allRL' = other.allRL
    /\ uniform' = other.uniform
    /\ fallbackRun' = other.fallbackRun
    /\ UNCHANGED << config, database, attempt >>

\* the running call is suspended at an await, or has ended, and the event loop
\* runs the other call: each call resumes with its own locals
Switch ==
    /\ pc # "idle" \/ other.pc # "idle"
    /\ other' = Locals
    /\ pc' = other.pc
    /\ entry' = other.entry
    /\ retries' = other.retries
    /\ baseDelay' = other.baseDelay
    /\ attempt' = other.attempt
    /\ mi' = other.mi
    /\ client' = other.client
    /\ lastError' = other.lastError
    /\ dresult' = other.dresult
    /\ ret' = other.ret
    /\ maxAttempts' = other.maxAttempts
    /\ nCalls' = other.nCalls
    /\ nStarted' = other.nStarted
    /\ nPicks' = other.nPicks
    /\ delays' = other.delays
    /\ lastOut' = other.lastOut
    /\ allRL' = other.allRL
    /\ uniform' = other.uniform
    /\ fallbackRun' = other.fallbackRun
    /\ UNCHANGED << config, database >>

InitPair == InitWith({c \in DispatchConfigs : Cardinality(c.keys) = 2}) /\ rev = "p3"

NextPair ==
    \/ \E r \in 0..MaxRetries : DirectCall(r, DefaultBaseDelay(rev))
    \/ OpResolves(R_TEXT)
    \/ \E e \in {E_404, E_429, E_FETCH} : OpRejects(e)
    \/ TimerFires
    \/ Switch

SpecPair == InitPair /\ [][NextPair]_vars

-----------------------------------------------------------------------------
(* One model: the recursive revisions beside the loop of part_003 given a *)
(* one-entry model list, the operation succeeding or failing with a       *)
(* rate-limited status                                                     *)

InitOneModel ==
    /\ InitModels({c \in DispatchConfigs : Cardinality(c.keys) \in {1, 2}}, TRUE)
    /\ rev \in RecursiveRevs \cup {"p3"}

NextOneModel ==
    \/ \E r \in 0..MaxRetries, b \in DirectBaseDelays : DirectCall(r, b)
    \/ \E resp \in {R_TEXT, R_EMPTY} : OpResolves(resp)
    \/ \E e \in StatusErrors : OpRejects(e)
    \/ TimerFires

SpecOneModel == InitOneModel /\ [][NextOneModel]_vars

-----------------------------------------------------------------------------
(* db.login and db.logout *)

\* whether login stores the username before it looks the profile up (db.ts:88)
StoresAtCall(r) == r = "db1"

\* the profiles after login wrote the row of username u
WriteProfile(rows, u, email) ==
    IF \E p \in rows : p.username = u THEN rows
    ELSE rows \cup {[username |-> u, email |-> ToLowerCase(email)]}

\* db.login(name, email, username, classLevel) runs up to its first await; in
\* local storage mode it runs to its end
LoginCall(username, email) ==
    /\ login.pc = "idle"
    /\ LET clean == Trim(ToLowerCase(username))
       IN /\ storedUsername' = IF StoresAtCall(dbRev) THEN clean ELSE storedUsername
          /\ IF isMockMode
             THEN /\ profiles' = WriteProfile(profiles, clean, email)
                  /\ login' = [pc |-> "ok", username |-> clean, email |-> email,
                               userByUsername |-> ProfileOf(clean, profiles),
                               storedBefore |-> storedUsername,
                               sessionBefore |-> getSession(storedUsername, profiles)]
             ELSE /\ login' = [pc |-> "selecting", username |-> clean, email |-> email,
                               userByUsername |-> NoUser,
                               storedBefore |-> storedUsername,
                               sessionBefore |-> getSession(storedUsername, profiles)]
                  /\ UNCHANGED profiles
    /\ UNCHANGED << service, dbRev, isMockMode, messages, sends >>

\* the select of the profile resolves: the username may be taken
LoginSelected ==
    /\ login.pc = "selecting"
    /\ LET found == ProfileOf(login.username, profiles)
       IN login' = [login EXCEPT
                       !.userByUsername = found,
                       !.pc = IF /\ found # NoUser
                                 /\ ToLowerCase(found.email) # ToLowerCase(login.email)
                              THEN "failed" ELSE "writing"]
    /\ UNCHANGED << service, dbRev, isMockMode, storedUsername, profiles, messages,
                    sends >>

\* the update or insert of the profile resolves, with an error or with the row
LoginWritten(error) ==
    /\ login.pc = "writing"
    /\ IF error
       THEN /\ login' = [login EXCEPT !.pc = "failed"]
            /\ UNCHANGED << storedUsername, profiles >>
       ELSE /\ profiles' = WriteProfile(profiles, login.username, login.email)
            /\ storedUsername' = IF StoresAtCall(dbRev) THEN storedUsername
                                 ELSE login.username
            /\ login' = [login EXCEPT !.pc = "ok"]
    /\ UNCHANGED << service, dbRev, isMockMode, messages, sends >>

\* the caller has the result of login, or its error, and may call again
LoginReturns ==
    /\ login.pc \in {"ok", "failed"}
    /\ login' = NoLogin
    /\ UNCHANGED << service, dbRev, isMockMode, storedUsername, profiles, messages,
                    sends >>

\* db.logout
logout ==
    /\ login.pc = "idle"
    /\ storedUsername # << >>
    /\ storedUsername' = << >>
    /\ UNCHANGED << service, dbRev, isMockMode, profiles, login, messages, sends >>

\* the db object loaded in one of its revisions and modes, nobody logged in
InitDb ==
    /\ InitService({c \in DispatchConfigs : Cardinality(c.keys) = 1}, FALSE)
    /\ rev = "db"
    /\ dbRev \in {"db1", "db2"}
    /\ isMockMode \in IF dbRev = "db1" THEN BOOLEAN ELSE {FALSE}
    /\ storedUsername = << >>
    /\ profiles = {}
    /\ login = NoLogin
    /\ messages = << >>
    /\ sends = NoSends

NextLogin ==
    \/ \E username \in {<<"a">>, <<"A", " ">>, <<"b">>}, email \in {<<"x">>, <<"X">>, <<"y">>} :
          LoginCall(username, email)
    \/ LoginSelected
    \/ \E error \in BOOLEAN : LoginWritten(error)
    \/ LoginReturns
    \/ logout

SpecLogin == InitDb /\ [][NextLogin]_vars

-----------------------------------------------------------------------------
(* db.sendPrivateMessage and db.sendGroupMessage, several calls on one chat *)

\* the message sender s sends
MessageOf(s) == [id |-> s]

\* the call of sender s runs up to its first await; in local storage mode it
\* runs to its end: getItem, push, setItem
SendCall(s) ==
    /\ sends[s].pc = "idle"
    /\ IF isMockMode
       THEN /\ messages' = Append(messages, MessageOf(s))
            /\ sends' = [sends EXCEPT ![s].pc = "done"]
       ELSE /\ sends' = [sends EXCEPT ![s].pc = "selecting"]
            /\ UNCHANGED messages
    /\ UNCHANGED << service, dbRev, isMockMode, storedUsername, profiles, login >>

\* the select of the messages column resolves with what is stored
SendSelected(s) ==
    /\ sends[s].pc = "selecting"
    /\ sends' = [sends EXCEPT ![s].pc = "updating", ![s].read = messages]
    /\ UNCHANGED << service, dbRev, isMockMode, storedUsername, profiles, login,
                    messages >>

\* the update stores newMessages, the messages read with msg appended
SendUpdated(s) ==
    /\ sends[s].pc = "updating"
    /\ messages' = Append(sends[s].read, MessageOf(s))
    /\ sends' = [sends EXCEPT ![s].pc = "done"]
    /\ UNCHANGED << service, dbRev, isMockMode, storedUsername, profiles, login >>

NextSend ==
    \/ \E s \in Senders : SendCall(s)
    \/ \E s \in Senders : SendSelected(s)
    \/ \E s \in Senders : SendUpdated(s)

SpecSend == InitDb /\ [][NextSend]_vars

-----------------------------------------------------------------------------
(* Properties *)

NModels == Len(models)

NonDecreasing(ds) == \A i \in 1..(Len(ds) - 1) : RatLeq(ds[i], ds[i + 1])

\* generateWithRetry ended because its retry budget was used up
Exhausted ==
    /\ pc = "done"
    /\ dresult.kind = "error"
    /\ IF rev \in LoopRevs THEN attempt > retries
       ELSE retries = 0 /\ lastOut.kind = "err" /\ Classified[rev, lastOut.val].rateLimit

\* C1: when every operation call fails rate-limited, generateWithRetry makes
\* exactly maxAttempts + 1 outer attempts, each one pick and one call, with
\* non-decreasing delays between them, and ends by throwing the rate-limited
\* error the operation raised.
C1_AlwaysRateLimited ==
    (pc = "done" /\ nCalls > 0 /\ allRL) =>
        /\ nPicks = maxAttempts + 1
        /\ nCalls = nPicks
        /\ Len(delays) = maxAttempts
        /\ NonDecreasing(delays)
        /\ dresult.kind = "error"
        /\ dresult.val = lastOut.val

\* C2: as long as the operation fails model-unavailable on every model but the
\* last and succeeds on the last, the dispatch stays in its first outer attempt
\* (one pick, no delay, the models tried in order) and ends by returning the
\* result of the call on the last model.
C2_FallbackToLastModel ==
    (fallbackRun /\ nCalls > 0) =>
        /\ nPicks = 1
        /\ attempt = 0
        /\ delays = << >>
        /\ \/ pc = "inflight" /\ mi = nCalls + 1 /\ mi <= NModels
           \/ /\ pc = "done"
              /\ nCalls = NModels
              /\ lastOut.kind = "ok"
              /\ dresult.kind = "value"
              /\ dresult.val = lastOut.val

C2_Witness ==
    /\ rev = "p3"
    /\ Len(clientPool) = 2
    /\ pc = "done"
    /\ fallbackRun
    /\ nCalls = 3
    /\ dresult.kind = "value"

\* C3: a call that fails with an error matching no status code and no message
\* substring ends the dispatch at once: that error is thrown, the failure adds no
\* delay and nothing is enabled afterwards; if it was the first call, exactly one
\* call and no delay happened.
C3_FatalPropagatesImmediately ==
    (lastOut.kind = "err" /\ Classified[rev, lastOut.val].fatal) =>
        /\ pc = "done"
        /\ dresult.kind = "error"
        /\ dresult.val = lastOut.val
        /\ Len(delays) = nPicks - 1
        /\ ~ENABLED Next
        /\ (nPicks = 1 /\ mi = 1) => (nCalls = 1 /\ delays = << >>)

C3_Witness ==
    /\ rev \in LoopRevs
    /\ pc = "done"
    /\ lastOut.kind = "err"
    /\ Classified[rev, lastOut.val].fatal
    /\ nCalls = 1
    /\ entry = "getStudyAnswer"

\* C4: when the retry budget is used up without a success, generateWithRetry
\* throws the error the last operation call raised, and no other error.
C4_ExhaustedThrowsLastError ==
    Exhausted => (lastOut.kind = "err" /\ dresult.val = lastOut.val)

\* C5: a call that succeeds ends the dispatch with exactly its result and nothing
\* is enabled afterwards; generateWithRetry returns a value only when its last
\* call succeeded, and then that call's result.
C5_FirstSuccessReturns ==
    /\ lastOut.kind = "ok" =>
          /\ pc = "done"
          /\ dresult.kind = "value"
          /\ dresult.val = lastOut.val
          /\ ~ENABLED Next
    /\ dresult.kind = "value" => (lastOut.kind = "ok" /\ dresult.val = lastOut.val)

C5_Witness ==
    /\ pc = "done"
    /\ dresult.kind = "value"
    /\ dresult.val = R_TEXT
    /\ nCalls > 1
    /\ nPicks > 1

\* the fixed texts the free-form answer operation returns for a busy backend
BusyMessages == {HIGH_TRAFFIC_KEYS, P4A_STUDY_BUSY, GS_STUDY_BUSY, DB_STUDY_BUSY}

\* C6: with a pool of one credential and an operation that always throws
\* {status: 429}, getStudyAnswer makes 4 outer attempts and returns the fixed
\* busy message.
C6_SingleKey429Busy ==
    (/\ pc = "done"
     /\ entry = "getStudyAnswer"
     /\ Len(API_KEYS) = 1
     /\ Len(clientPool) = 1
     /\ uniform = "E_429") =>
        /\ nPicks = 4
        /\ ret.kind = "string"
        /\ ret.val \in BusyMessages

\* every fixed text a text operation returns in its catch block; the bare
\* "System Error: " prefix is counted as one of them
FallbackMessages ==
    {GS_STUDY_BUSY, GS_SERVER_BUSY, DB_STUDY_BUSY, DB_PROJECT_FAILED, DB_PAPER_FAILED,
     HIGH_TRAFFIC_KEYS, P3_KEY_INVALID, P4B_KEY_INVALID, SYSTEM_ERROR_PREFIX,
     PROJECT_HIGH_LOAD, PAPER_HIGH_LOAD, P4A_STUDY_BUSY, P4A_PROJECT_BUSY,
     P4A_PAPER_BUSY}

\* C7: whatever error generateWithRetry throws, the text operations return one
\* of the fixed fallback texts, with nothing of the error's message in it.
C7_ClosedFallbackSet ==
    (pc = "done" /\ entry \in TextOps /\ dresult.kind = "error") =>
        /\ ret.kind = "string"
        /\ ret.val \in FallbackMessages

\* C8: with no credential parsed from the configuration, every generation
\* operation returns its fixed configuration result without a pick, an
\* operation call or a delay.
C8_NoKeysShortCircuit ==
    (Len(API_KEYS) = 0 /\ entry \in GenOps) =>
        /\ pc = "done"
        /\ nCalls = 0
        /\ nPicks = 0
        /\ delays = << >>
        /\ dresult.kind = "none"
        /\ ret = GuardResult(rev, entry)

\* C9: the pool is never empty: the one sentinel client when no credential was
\* parsed, otherwise one client per parsed credential in order; every picked
\* index lies in 0 .. poolSize - 1.
C9_PoolNeverEmpty ==
    /\ Len(clientPool) >= 1
    /\ Len(API_KEYS) = 0 =>
          (Len(clientPool) = 1 /\ clientPool[1].apiKey = SentinelKey(rev))
    /\ Len(API_KEYS) > 0 =>
          /\ Len(clientPool) = Len(API_KEYS)
          /\ \A i \in 1..Len(API_KEYS) : clientPool[i].apiKey = API_KEYS[i]
    /\ nPicks > 0 => client \in 0..(Len(clientPool) - 1)

C9_Witness ==
    /\ Len(API_KEYS) = 2
    /\ Len(clientPool) = 2
    /\ client = 1
    /\ nPicks = 4

\* the credentials the pool is to hold: those of the configuration, and in p4a
\* also the embedded fallback credentials
ConfiguredKeys == cfgKeys \cup (IF rev = "p4a" THEN FallbackKeySet ELSE {})

\* C10: the credential list built by the loop revisions holds exactly the
\* credentials written in the configuration, each once.
C10_ParsedKeysExact ==
    rev \in LoopRevs =>
        /\ Range(API_KEYS) = ConfiguredKeys
        /\ Len(API_KEYS) = Cardinality(ConfiguredKeys)

\* the backend text of the last call is absent, empty, not JSON or not an array
NotAnArray(resp) ==
    \/ ~resp.hasText
    \/ resp.text = << >>
    \/ ~JSONParse(resp.text).ok
    \/ ~JSONParse(resp.text).isArray

\* C11: getQuizQuestions returns a list in every case; the empty list when the
\* backend text is absent, is not JSON or parses to something that is not an
\* array; and a non-empty list only when the text parses to a non-empty array,
\* which is then the list returned.
C11_QuizMalformedIsEmpty ==
    (pc = "done" /\ entry = "getQuizQuestions") =>
        /\ ret.kind = "list"
        /\ NotAnArray(lastOut.val) => ret.val = << >>
        /\ ret.val # << >> =>
              /\ ~NotAnArray(lastOut.val)
              /\ ret.val = JSONParse(lastOut.val.text).items

C11_Witness ==
    /\ pc = "done"
    /\ entry = "getQuizQuestions"
    /\ lastOut.kind = "ok"
    /\ lastOut.val.text = <<"{", "}">>
    /\ ret = List(<< >>)

\* the emphasis marker the revision removes: any asterisk in cleanText, the
\* two-asterisk sequence elsewhere
Marker(r) == IF r = "p4a" THEN << "*" >> ELSE << "*", "*" >>

\* the post-processing of a text operation applied to the response text s
PostProcess(r, op, s) == OnSuccess(r, op, ReplyOf(s)).val

\* the first call of a text operation resolved with a response that has text
TextReplied ==
    /\ pc = "done"
    /\ entry \in TextOps
    /\ lastOut.kind = "ok"
    /\ lastOut.val.hasText

\* C12: a non-empty response text without emphasis marker is returned
\* unchanged by the text operations, and post-processing the returned text
\* again gives the same text.
C12_CleanTextUnchanged ==
    (/\ TextReplied
     /\ lastOut.val.text # << >>
     /\ ~Includes(lastOut.val.text, Marker(rev))) =>
        /\ ret.val = lastOut.val.text
        /\ PostProcess(rev, entry, ret.val) = ret.val

\* C13: the text operations never return the empty string, whatever the
\* backend response: no text, empty text, or only markers and whitespace.
C13_NeverEmptyText ==
    (pc = "done" /\ entry \in TextOps) => (ret.kind = "string" /\ ret.val # << >>)

\* C14: the text returned by a text operation contains no emphasis marker,
\* whatever the response text, runs of three or more asterisks included.
C14_NoMarkerLeft ==
    (pc = "done" /\ entry \in TextOps /\ lastOut.kind = "ok") =>
        ~Includes(ret.val, Marker(rev))

C14_Witness ==
    /\ TextReplied
    /\ rev = "p3"
    /\ entry = "getStudyAnswer"
    /\ lastOut.val.text = << "*", "*", "*", "a" >>
    /\ ret.val = << "*", "a" >>

\* C15: each of the four generation operations, once it has ended, has resolved
\* with a value (a string, or a list for the quiz) whatever the sequence of
\* backend outcomes, a fatal error and exhausted attempts included; until then
\* it has returned nothing and waits for the backend or for a timer.
C15_OperationsAlwaysResolve ==
    entry \in GenOps =>
        /\ pc \in {"inflight", "sleeping", "done"}
        /\ pc = "done" =>
              ret.kind = (IF entry = "getQuizQuestions" THEN "list" ELSE "string")
        /\ pc # "done" => ret = NoReturn

C15_Witness ==
    /\ Exhausted
    /\ entry = "getSamplePaper"
    /\ nPicks = 4
    /\ ret.kind = "string"

\* the step is the call in flight rejecting, with the error lastOut'.val
Rejects ==
    /\ pc = "inflight"
    /\ nCalls' = nCalls + 1
    /\ lastOut'.kind = "err"

\* C16: within an outer attempt the models are tried in list order from the
\* first: a pick is followed by a call on the first model, a model-unavailable
\* failure on a model that is not the last is followed by a call on the next
\* model with the same client, no pick and no delay, and the model position
\* changes in no other way.
C16_ModelsInOrder ==
    [][/\ nPicks' = nPicks + 1 => (pc' = "inflight" /\ mi' = 1)
       /\ (Rejects /\ Classified[rev, lastOut'.val].modelError /\ mi < NModels) =>
              /\ pc' = "inflight"
              /\ mi' = mi + 1
              /\ client' = client
              /\ nPicks' = nPicks
              /\ delays' = delays
       /\ mi' # mi =>
              \/ mi' = mi + 1 /\ mi' <= NModels /\ nPicks' = nPicks
              \/ mi' = 1 /\ nPicks' = nPicks + 1]_vars

C16_Witness ==
    /\ rev = "p3"
    /\ pc = "inflight"
    /\ nPicks = 2
    /\ mi = 3
    /\ lastOut.kind = "err"
    /\ Classified[rev, lastOut.val].modelError

\* the last call failed, with the error lastOut.val
Failed == lastOut.kind = "err"

\* generateWithRetry ended because no attempt was left, not on a thrown failure
OutOfAttempts ==
    /\ pc = "done"
    /\ IF rev \in LoopRevs THEN attempt > retries ELSE retries = 0

\* C17: after a call failed with an error matching the rate-limit or the
\* credential test, no further model is tried with the same pick: a call in
\* flight afterwards is on the first model, after a fresh pick of the next
\* outer attempt.
C17_KeyFailureLeavesAttempt ==
    (/\ Failed
     /\ Classified[rev, lastOut.val].rateLimit \/ Classified[rev, lastOut.val].authError
     /\ pc = "inflight") =>
        /\ mi = 1
        /\ nPicks >= 2
        /\ Len(delays) = nPicks - 1

\* C18: in the loop revisions a failure with status 429, 503, 401 or 403 makes
\* the dispatch abandon the picked credential, whatever the message says: it
\* tries no further model with the pick and does not throw before the attempts
\* are used up.
C18_StatusDecides ==
    (/\ rev \in LoopRevs
     /\ Failed
     /\ StatusOf(lastOut.val) \in {429, 503, 401, 403}) =>
        /\ pc = "inflight" => mi = 1
        /\ pc = "done" => OutOfAttempts

\* C19: a failure without status whose message holds, in any letter case, one
\* of "quota", "exhausted", "overloaded", "busy", "429" and no model-unavailable
\* substring is not thrown at once: the dispatch goes on to the next outer
\* attempt and ends in error only when no attempt is left.
C19_BusyWordsRetry ==
    LET msg == ToLowerCase(lastOut.val.message)
        busyWords ==
            {<<"q", "u", "o", "t", "a">>, <<"e", "x", "h", "a", "u", "s", "t", "e", "d">>,
             <<"o", "v", "e", "r", "l", "o", "a", "d", "e", "d">>, <<"b", "u", "s", "y">>,
             <<"4", "2", "9">>}
        modelWords ==
            {<<"n", "o", "t", " ", "f", "o", "u", "n", "d">>,
             <<"s", "u", "p", "p", "o", "r", "t", "e", "d">>}
    IN (/\ Failed
        /\ StatusOf(lastOut.val) = 0
        /\ \E w \in busyWords : Includes(msg, w)
        /\ \A w \in modelWords : ~Includes(msg, w)) =>
           /\ pc \in {"sleeping", "inflight", "done"}
           /\ pc = "inflight" => mi = 1
           /\ pc = "done" => OutOfAttempts

\* generateWithRetry has been called
Dispatched == entry # "none" /\ (pc # "done" \/ dresult.kind # "none")

\* C20: a dispatch makes at least 1 and at most maxAttempts + 1 credential
\* picks and at most |MODEL_FALLBACKS| operation calls per pick; a dispatch
\* started by a generation operation has maxAttempts >= 3, and in the loop
\* revisions maxAttempts = max(3, poolSize + 1).
C20_AttemptBudget ==
    Dispatched =>
        /\ nPicks >= 1
        /\ nPicks <= maxAttempts + 1
        /\ nCalls <= nPicks * NModels
        /\ nCalls <= (maxAttempts + 1) * NModels
        /\ entry \in GenOps =>
              /\ maxAttempts >= 3
              /\ rev \in LoopRevs => maxAttempts = Max(3, Len(clientPool) + 1)

C20_Witness ==
    /\ rev = "p3"
    /\ entry = "getQuizQuestions"
    /\ Len(clientPool) = 2
    /\ pc = "done"
    /\ nPicks = maxAttempts + 1
    /\ nCalls = (maxAttempts + 1) * NModels

\* C21: the k-th delay of a dispatch (k from 0) is baseDelay x 1.5^k: the first
\* delay is baseDelay and each later one is 1.5 times the one before, however
\* many models were tried and whatever the failures were; with the default
\* baseDelay the delays are strictly increasing.
C21_BackoffGrowth ==
    /\ \A i \in 1..(Len(delays) - 1) :
          2 * delays[i + 1][1] * delays[i][2] = 3 * delays[i][1] * delays[i + 1][2]
    /\ (rev \in LoopRevs /\ delays # << >>) => delays[1] = baseDelay
    /\ (entry \in GenOps /\ delays # << >>) =>
          /\ delays[1] = DefaultBaseDelay(rev)
          /\ \A i \in 1..(Len(delays) - 1) :
                delays[i][1] * delays[i + 1][2] < delays[i + 1][1] * delays[i][2]

C21_Witness ==
    /\ rev = "p3"
    /\ entry = "getStudyAnswer"
    /\ delays = << << 1000, 1 >>, << 1500, 1 >>, << 2250, 1 >> >>
    /\ nCalls > nPicks
    /\ ~allRL

\* C22: delays occur only between two consecutive outer attempts, one each:
\* while a call is in flight or after the dispatch ended, the delays number
\* one less than the picks (none before the first attempt, none between two
\* model tries, none after the last attempt); while the dispatch waits, as many
\* as the picks; an exhausted dispatch has waited exactly maxAttempts times.
C22_DelaysBetweenAttempts ==
    nPicks >= 1 =>
        /\ pc \in {"inflight", "done"} => Len(delays) = nPicks - 1
        /\ pc = "sleeping" => Len(delays) = nPicks
        /\ Exhausted => (Len(delays) = maxAttempts /\ nPicks = maxAttempts + 1)

C22_Witness ==
    /\ rev = "p3"
    /\ Exhausted
    /\ maxAttempts = 3
    /\ Len(delays) = 3
    /\ nCalls > nPicks

\* C23: within a dispatch at most one operation call is in flight: the calls
\* started exceed the calls completed by one exactly while the dispatch awaits
\* a call, and by none while it waits for the backoff timer or has ended, so a
\* call or a delay starts only after the previous call completed.
C23_OneCallInFlight ==
    /\ nStarted - nCalls \in {0, 1}
    /\ pc = "inflight" <=> nStarted - nCalls = 1
    /\ pc \in {"sleeping", "done"} => nStarted = nCalls

C23_Witness ==
    /\ rev = "p3"
    /\ pc = "inflight"
    /\ nStarted = 5
    /\ nCalls = 4
    /\ nPicks = 2

\* what holds of the locals l of a generateWithRetry call that runs alone, given
\* the picks made and the call outcomes observed for it
Alone(l) ==
    l.pc # "idle" =>
        /\ l.client \in {getRandomClient(j) : j \in 0..(RandomSteps - 1)}
        /\ l.mi \in 1..NModels
        /\ l.nStarted - l.nCalls = IF l.pc = "inflight" THEN 1 ELSE 0
        /\ l.nStarted >= l.nPicks - 1 + l.mi
        /\ l.nStarted <= (l.nPicks - 1) * NModels + l.mi
        /\ Len(l.delays) = IF l.pc = "sleeping" THEN l.nPicks ELSE l.nPicks - 1
        /\ \A i \in 1..(Len(l.delays) - 1) :
              2 * l.delays[i + 1][1] * l.delays[i][2]
                  = 3 * l.delays[i][1] * l.delays[i + 1][2]
        /\ IF rev \in LoopRevs
           THEN /\ l.retries = l.maxAttempts
                /\ l.delays # << >> => l.delays[1] = l.baseDelay
                /\ l.attempt = IF l.pc = "done" /\ l.nPicks > l.retries
                                  /\ l.lastOut.kind = "err"
                                  /\ Classified[rev, l.lastOut.val].decision
                                         \in {"continue", "break"}
                               THEN l.nPicks ELSE l.nPicks - 1
           ELSE /\ l.attempt = 0
                /\ l.retries = l.maxAttempts - (l.nPicks - 1)
        /\ l.pc = "done" =>
              l.dresult =
                 IF l.lastOut.kind = "ok" THEN Returned(l.lastOut.val)
                 ELSE IF rev \in LoopRevs /\ l.attempt > l.retries
                 THEN Thrown(FinalError(rev, l.lastOut.val))
                 ELSE Thrown(l.lastOut.val)

\* C24: no step of a dispatch changes the credential pool or the model list,
\* and when two dispatch calls are interleaved at their awaits, the attempt
\* counter, model position, delay sequence and outcome of each are those of a
\* call that ran alone with the same picks and operation outcomes.
C24_DispatchesIndependent ==
    [][ /\ UNCHANGED << API_KEYS, clientPool, models >>
        /\ Alone(Locals)'
        /\ Alone(other)' ]_vars

C24_Witness ==
    /\ rev = "p3"
    /\ pc = "inflight"
    /\ attempt = 1
    /\ mi = 2
    /\ other.pc = "sleeping"
    /\ other.attempt = 0
    /\ other.nCalls = 3

\* C25: every record in the list returned by getQuizQuestions has a
\* correctAnswer equal to one of the strings of its options, whatever array
\* the backend returned.
C25_CorrectAnswerIsOption ==
    (pc = "done" /\ entry = "getQuizQuestions" /\ ret.kind = "list") =>
        \A i \in 1..Len(ret.val) :
            /\ ret.val[i].type = "object"
            /\ ret.val[i].correctAnswer \in Range(ret.val[i].options)

\* C26: for an operation that succeeds or fails with status 429 or 503, the
\* recursive generateWithRetry and the loop over a one-entry model list behave
\* alike: both make one call after another until one succeeds or retries + 1
\* have failed, wait baseDelay x 1.5^k after the k-th failed call that is not
\* the last, and end with the successful result or the last error.
C26_RecursiveEqualsLoop ==
    pc # "idle" =>
        /\ nCalls <= maxAttempts + 1
        /\ Len(delays) = IF pc = "done" THEN nCalls - 1 ELSE nCalls
        /\ \A i \in 1..(Len(delays) - 1) :
              2 * delays[i + 1][1] * delays[i][2] = 3 * delays[i][1] * delays[i + 1][2]
        /\ (rev \in LoopRevs /\ delays # << >>) => delays[1] = baseDelay
        /\ (rev \in RecursiveRevs /\ pc = "sleeping") => delays[Len(delays)] = baseDelay
        /\ (rev \in RecursiveRevs /\ nCalls = 0) => delays = << >>
        /\ pc = "done" =>
              /\ lastOut.kind = "ok" => dresult = [kind |-> "value", val |-> lastOut.val]
              /\ lastOut.kind = "err" =>
                    /\ dresult = [kind |-> "error", val |-> lastOut.val]
                    /\ nCalls = maxAttempts + 1

\* C27: in part_003 and the second revision of part_004, while every call has
\* failed model-unavailable, an attempt ends once the last model failed: it
\* is followed by one backoff delay and a new pick unless it was the last
\* attempt; the dispatch then ends after maxAttempts + 1 picks and
\* (maxAttempts + 1) x |models| calls by throwing the model-unavailable error.
C27_AllModelsUnavailable ==
    (rev \in {"p3", "p4b"} /\ uniform = "E_404") =>
        /\ pc = "inflight" =>
              /\ nCalls = (nPicks - 1) * NModels + (mi - 1)
              /\ Len(delays) = nPicks - 1
              /\ attempt = nPicks - 1
        /\ pc = "sleeping" =>
              /\ nCalls = nPicks * NModels
              /\ Len(delays) = nPicks
              /\ nPicks <= maxAttempts
        /\ pc = "done" =>
              /\ nPicks = maxAttempts + 1
              /\ nCalls = (maxAttempts + 1) * NModels
              /\ Len(delays) = maxAttempts
              /\ dresult = [kind |-> "error", val |-> E_404]
              /\ IsModelError(rev, dresult.val)

C27_Witness ==
    /\ rev = "p4b"
    /\ uniform = "E_404"
    /\ pc = "done"
    /\ maxAttempts = 3
    /\ nPicks = 4
    /\ nCalls = 12
    /\ Len(delays) = 3

C29_FailedLoginKeepsSession ==
    login.pc = "failed" =>
        /\ storedUsername = login.storedBefore
        /\ getSession(storedUsername, profiles) = login.sessionBefore

\* C30: the message of every send call that has completed is in the stored
\* message list of the chat, however the reads and writes of the calls were
\* interleaved.
C30_NoMessageLost ==
    \A s \in Senders : sends[s].pc = "done" => MessageOf(s) \in Range(messages)

====
